---- MODULE Spec2Model ----
(***************************************************************************)
(* Model of upload_neocities.py: the incremental sync of a local tree to   *)
(* a Neocities site (list remote, diff by size and SHA-1, upload in        *)
(* batches through retry_on_rate_limit).                                   *)
(***************************************************************************)
EXTENDS Integers, Sequences, FiniteSets, TLC

(* ---------------------------------------------------------------- bounds *)
\* Consecutive transient failures the service produces at most in one call
\* of a whole run (Spec) and of the invoker alone (SpecInvoker).
MaxTransient == 1
MaxRetry == 6
\* Successive runs of the program on the same site.
MaxRuns == 2
\* Largest configured batch size (the smallest is -1).
MaxBatch == 2
\* Longest sequence and largest batch size given to chunked alone.
MaxLen == 5
MaxChunk == 3

(* ------------------------------------------------------ program constants *)
InitialDelay == 60
MaxDelay == 600
DefaultBatch == 100
NoneSize == -1
NoneSha == "None"

Min(a, b) == IF a <= b THEN a ELSE b

FloorDivTruncating(a, b) ==
    IF b > 0 THEN (IF a < 0 THEN -((-a) \div b) ELSE a \div b)
    ELSE (IF a > 0 THEN -(a \div (-b)) ELSE (-a) \div (-b))
\* Python's floor division a // b for b /= 0.
FloorDiv(a, b) == IF b > 0 THEN a \div b ELSE (-a) \div (-b)

(* ------------------------------------------------------------ local tree *)
\* The files the scan finds (root.rglob filtered by extension), in scan order.
local == <<"a.html", "b.css", "c.png">>
LocalPaths == {local[i] : i \in 1..Len(local)}
\* A path that exists on the site only.
RemoteOnly == "d.png"
Paths == LocalPaths \cup {RemoteOnly}
PathOrder == <<"a.html", "b.css", "c.png", "d.png">>

st_size(p) == CASE p = "a.html" -> 1 [] p = "b.css" -> 2 [] OTHER -> 1

sha1_file(p) == CASE p = "a.html" -> "X" [] p = "b.css" -> "Y" [] OTHER -> "Y"

Sizes == {1, 2}
Hashes == {"X", "Y"}

(* ------------------------------------------------------------ remote site *)
AbsentEntry == [kind |-> "absent", size |-> NoneSize, sha |-> NoneSha]
DirEntry == [kind |-> "dir", size |-> NoneSize, sha |-> NoneSha]
FileEntry(s, h) == [kind |-> "file", size |-> s, sha |-> h]
RemoteEntries == {AbsentEntry, DirEntry} \cup {FileEntry(s, h) : s \in Sizes, h \in Hashes}

\* GET /api/list: one item per object of the site, directories included.
RECURSIVE ListFrom(_, _)
ListFrom(rem, k) ==
    IF k > Len(PathOrder) THEN <<>>
    ELSE LET p == PathOrder[k]
             e == rem[p]
         IN  IF e.kind = "absent" THEN ListFrom(rem, k + 1)
             ELSE <<[path |-> p, is_directory |-> (e.kind = "dir"),
                     size |-> e.size, sha1_hash |-> e.sha]>> \o ListFrom(rem, k + 1)
listitems(rem) == ListFrom(rem, 1)

\* What nc.listitems can return without raising.
ListResults(rem) ==
    { [result |-> "success", has_files |-> TRUE, files |-> listitems(rem), message |-> NoneSha],
      [result |-> "success", has_files |-> FALSE, files |-> <<>>, message |-> NoneSha],
      [result |-> "error", has_files |-> FALSE, files |-> <<>>, message |-> "invalid_auth"],
      [result |-> "error", has_files |-> TRUE, files |-> listitems(rem), message |-> NoneSha] }
UploadResult == [result |-> "success", has_files |-> FALSE, files |-> <<>>, message |-> "uploaded"]
NoResult == [result |-> "none", has_files |-> FALSE, files |-> <<>>, message |-> NoneSha]

\* The site after a successful nc.upload of the chunk: every file of the
\* chunk is stored with the local content.
AfterUpload(rem, chunk) ==
    [p \in Paths |->
        IF \E i \in 1..Len(chunk) : chunk[i] = p
        THEN FileEntry(st_size(p), sha1_file(p)) ELSE rem[p]]

(* ---------------------------------------------------------------- helpers *)
\* range(start, stop, step) of Python, step /= 0.
RECURSIVE Range(_, _, _)
Range(start, stop, step) ==
    IF (step > 0 /\ start < stop) \/ (step < 0 /\ start > stop)
    THEN <<start>> \o Range(start + step, stop, step)
    ELSE <<>>

\* range() raises ValueError on a zero step.
RangeRaises(step) == step = 0

\* seq[i : i + n] with 0-based i, for n > 0.
Slice(seq, i, n) == SubSeq(seq, i + 1, Min(i + n, Len(seq)))

chunkedOverlap(seq, n) ==
    LET starts == Range(0, Len(seq), n)
    IN  [k \in 1..Len(starts) |-> Slice(seq, starts[k], n + 1)]
chunkedDropLast(seq, n) ==
    LET starts == Range(0, Len(seq) - 1, n)
    IN  [k \in 1..Len(starts) |-> Slice(seq, starts[k], n)]
chunked(seq, n) ==
    IF RangeRaises(n) THEN <<>>
    ELSE LET starts == Range(0, Len(seq), n)
         IN  [k \in 1..Len(starts) |-> Slice(seq, starts[k], n)]

\* remote_index = {f["path"]: (f["size"], f["sha1_hash"]) for f in files
\*                 if not f["is_directory"]}
RECURSIVE IndexFrom(_, _, _)
IndexFrom(files, k, acc) ==
    IF k > Len(files) THEN acc
    ELSE LET f == files[k]
         IN  IF f.is_directory THEN IndexFrom(files, k + 1, acc)
             ELSE IndexFrom(files, k + 1,
                      [x \in (DOMAIN acc) \cup {f.path} |->
                          IF x = f.path THEN <<f.size, f.sha1_hash>> ELSE acc[x]])
EmptyIndex == [x \in {} |-> <<NoneSize, NoneSha>>]
BuildIndex(files) == IndexFrom(files, 1, EmptyIndex)

\* remote_index.get(rel, (None, None))
IndexGet(idx, rel) == IF rel \in DOMAIN idx THEN idx[rel] ELSE <<NoneSize, NoneSha>>

SizeDiffersHashFirst(size, r_size) == FALSE
\* The left operand of the `or` of the diff: a true one skips the hash.
SizeDiffers(size, r_size) == size /= r_size

NeedsUploadSizeOnly(size, sha, r_size, r_sha) == size /= r_size
NeedsUpload(size, sha, r_size, r_sha) == SizeDiffers(size, r_size) \/ sha /= r_sha

\* raw.get("result") != "success" or "files" not in raw
ListingBadResultOnly(r) == r.result /= "success"
ListingBad(r) == r.result /= "success" \/ ~r.has_files

\* raw.get('message', raw): the message, else the whole response.
ApiMessage(r) == IF r.message /= NoneSha THEN r.message ELSE "raw"

(* --------------------------------------------------------- retry policy *)
TransientCodes == {429, 500, 502, 503, 504}
FatalCodes == {401, 404}
HttpCodes == TransientCodes \cup FatalCodes

IsTransientAll(status) == TRUE
IsTransient(status) == status \in TransientCodes

NextDelayNoCap(d) == d * 2
NextDelay(d) == Min(d * 2, MaxDelay)

ReturnNone(r) == NoResult
ReturnValue(r) == r

(* ------------------------------------------------------------------ state *)
VARIABLES
    cfg_exists,     \* config.ini exists
    cfg_batch,      \* its batch_size
    remote,         \* the site: path -> entry
    transientCap,   \* transient failures the service produces at most per call
    run,            \* number of the current run of main
    pc,             \* position of main
    skip_input,     \* main's skip_input
    batch_sz,       \* main's batch_sz
    raw,            \* the listing main received
    remote_index,   \* main's remote_index
    li,             \* 1-based position of the diff loop in local
    to_send,        \* main's to_send (relative paths)
    hashed,         \* paths sha1_file was called on in this run
    ioFailed,       \* paths sha1_file raised an OSError on in this run
    prompts,        \* inputs read from the operator in this run
    answer,         \* what the operator answered to "Continue? [y/N]"
    chunks,         \* the chunks chunked(to_send, batch_sz) yields
    bi,             \* 1-based number of the chunk being uploaded
    sent,           \* main's sent
    reports,        \* progress reports made (bar(len(chunk)))
    uploaded,       \* the chunks whose upload request succeeded, in order
    exitMsg,        \* the sys.exit message or the exception that ended the run
    finishedMsg,    \* the "Finished" message: sent and request count
    prev,           \* how the previous run ended
    ist,            \* state of retry_on_rate_limit
    delay,          \* its delay
    sleeps,         \* the time.sleep durations of the current call
    status,         \* HTTP status of the failure being handled (0: none)
    fnResult,       \* what fn returned in the successful attempt
    ret,            \* what retry_on_rate_limit returned
    callOp,         \* the operation wrapped: "list" or "upload"
    attempted,      \* the chunk handed to nc.upload in the last attempt
    prevSleeps      \* the sleeps of the previous call of this run

envVars == <<cfg_exists, cfg_batch, remote, transientCap>>
ctlVars == <<ist, delay, sleeps, status, callOp, prevSleeps>>
invVars == <<ist, delay, sleeps, status, fnResult, ret, callOp, attempted, prevSleeps>>
planVars == <<raw, remote_index, li, to_send, hashed, ioFailed>>
loopVars == <<answer, chunks, bi, sent, reports, uploaded, finishedMsg>>
vars == <<cfg_exists, cfg_batch, remote, transientCap, run, pc, skip_input, batch_sz,
          raw, remote_index, li, to_send, hashed, ioFailed, prompts, answer, chunks, bi, sent, reports, uploaded,
          exitMsg, finishedMsg, prev, ist, delay, sleeps, status, fnResult, ret, callOp,
          attempted, prevSleeps>>

Terminal == {"exit_template", "exit_client", "exit_api", "raised", "returned", "done"}
\* What is remembered of the previous run: whether it printed "Finished",
\* whether a failure of an upload call ended it, and for these two its plan and
\* the chunks it uploaded.
NoPrev == [finished |-> FALSE, interrupted |-> FALSE, to_send |-> <<>>, uploaded |-> <<>>]

BatchSizes == (-1)..MaxBatch

\* The state of one run before main is entered.
RunData ==
    /\ skip_input = FALSE
    /\ raw = NoResult
    /\ remote_index = EmptyIndex
    /\ li = 0
    /\ hashed = {}
    /\ ioFailed = {}
    /\ prompts = 0
    /\ answer = "unasked"
    /\ chunks = <<>>
    /\ bi = 0
    /\ sent = 0
    /\ reports = 0
    /\ uploaded = <<>>
    /\ exitMsg = "none"
    /\ finishedMsg = [printed |-> FALSE, sent |-> 0, requests |-> 0]
    /\ sleeps = <<>>
    /\ status = 0
    /\ fnResult = NoResult
    /\ ret = NoResult
    /\ attempted = <<>>
    /\ prevSleeps = <<>>

RunInit ==
    /\ RunData
    /\ pc = "start"
    /\ batch_sz = 0
    /\ to_send = <<>>
    /\ ist = "Idle"
    /\ delay = 0
    /\ callOp = "none"

Init ==
    /\ cfg_exists \in BOOLEAN
    /\ cfg_batch \in (IF cfg_exists THEN BatchSizes ELSE {DefaultBatch})
    /\ remote \in [Paths -> RemoteEntries]
    /\ remote[RemoteOnly].kind \in {"absent", "file"}
    /\ remote[RemoteOnly].kind = "file" => remote[RemoteOnly] = FileEntry(1, "X")
    /\ transientCap = MaxTransient
    /\ run = 1
    /\ prev = NoPrev
    /\ RunInit

(* ---------------------------------------------------- retry_on_rate_limit *)
CurrentChunkOfLocal ==
    IF bi \in 1..Len(chunks) THEN Slice(local, (bi - 1) * batch_sz, batch_sz) ELSE <<>>
\* The chunk of the current iteration of the upload loop.
CurrentChunk == IF bi \in 1..Len(chunks) THEN chunks[bi] ELSE <<>>

EnterKeepDelay(op) ==
    /\ ist' = "Attempting"
    /\ delay' = IF callOp = "none" THEN InitialDelay ELSE delay
    /\ prevSleeps' = sleeps
    /\ sleeps' = <<>>
    /\ status' = 0
    /\ callOp' = op
\* Entry of retry_on_rate_limit: delay = 60, then the first attempt.
Enter(op) ==
    /\ ist' = "Attempting"
    /\ delay' = InitialDelay
    /\ prevSleeps' = sleeps
    /\ sleeps' = <<>>
    /\ status' = 0
    /\ callOp' = op

\* return fn(*a, **kw)
Succeed(r) ==
    /\ fnResult' = r
    /\ ret' = ReturnValue(r)

\* An exception leaves retry_on_rate_limit; main catches nothing, so it ends
\* the run.
Raise(e, st) ==
    /\ ist' = "Failed"
    /\ status' = st
    /\ exitMsg' = e
    /\ pc' = IF pc = "invoker" THEN pc ELSE "raised"
    /\ attempted' = IF callOp = "upload" THEN CurrentChunk ELSE attempted
    /\ UNCHANGED <<delay, sleeps, callOp, prevSleeps, fnResult, ret>>
    /\ UNCHANGED <<envVars, planVars, loopVars, run, skip_input, batch_sz, prompts, prev>>

InCall == pc \in {"list", "upload", "invoker"}

\* fn raises requests.HTTPError with a status of the retry list: warn, sleep.
AttemptTransient ==
    /\ InCall /\ ist = "Attempting"
    /\ Len(sleeps) < transientCap
    /\ \E st \in HttpCodes :
        /\ IsTransient(st)
        /\ status' = st
    /\ ist' = "Backoff"
    /\ sleeps' = Append(sleeps, delay)
    /\ attempted' = IF callOp = "upload" THEN CurrentChunk ELSE attempted
    /\ UNCHANGED <<delay, callOp, prevSleeps, fnResult, ret>>
    /\ UNCHANGED <<envVars, planVars, loopVars, run, pc, skip_input, batch_sz, prompts,
                   exitMsg, prev>>

\* time.sleep(delay) is over: delay = min(delay * 2, 600), next attempt.
BackoffElapsed ==
    /\ InCall /\ ist = "Backoff"
    /\ delay' = NextDelay(delay)
    /\ ist' = "Attempting"
    /\ status' = 0
    /\ UNCHANGED <<sleeps, callOp, prevSleeps, fnResult, ret, attempted>>
    /\ UNCHANGED <<envVars, planVars, loopVars, run, pc, skip_input, batch_sz, prompts,
                   exitMsg, prev>>

\* fn raises requests.HTTPError with any other status: raise.
AttemptFatalHttp ==
    /\ InCall /\ ist = "Attempting"
    /\ \E st \in HttpCodes :
        /\ ~IsTransient(st)
        /\ Raise("HTTPError", st)

\* fn raises something that is no requests.HTTPError: not caught at all.
AttemptRaisesOther ==
    /\ InCall /\ ist = "Attempting"
    /\ Raise("OtherError", 0)

(* -------------------------------------------------------------------- main *)
InteractiveAlways(skip) == TRUE
\* `if skip_input: _input = lambda _: None` and `not skip_input and ...`
Interactive(skip) == ~skip

\* Python's str.lower on the answers the operator can give.
Lower(a) == IF a = "Y" THEN "y" ELSE a
Answers == {"y", "Y", "n", ""}
DeclinesOnNo(a) == Lower(a) = "n"
\* _input("Continue? [y/N] ").lower() != "y"
Declines(a) == Lower(a) /= "y"

\* (total - 1) // batch_sz + 1 of the "Finished" message.
RequestsReported(total, n) == FloorDiv(total - 1, n) + 1

\* Head of `for chunk in chunked(to_send, batch_sz)` before chunk k, with s
\* files sent: the next upload call, or the "Finished" message after the loop.
LoopHead(cs, k, s) ==
    IF k <= Len(cs)
    THEN /\ bi' = k
         /\ pc' = "upload"
         /\ Enter("upload")
         /\ finishedMsg' = finishedMsg
    ELSE /\ bi' = bi
         /\ finishedMsg' = [printed |-> TRUE, sent |-> s,
                            requests |-> RequestsReported(Len(to_send), batch_sz)]
         /\ pc' = IF Interactive(skip_input) THEN "ack" ELSE "done"
         /\ ist' = "Succeeded"
         /\ UNCHANGED <<delay, sleeps, status, callOp, prevSleeps>>

\* sent = 0 and the first evaluation of chunked: range() raises on step 0.
LoopStart ==
    /\ sent' = 0
    /\ IF RangeRaises(batch_sz)
       THEN /\ pc' = "raised"
            /\ exitMsg' = "ValueError"
            /\ UNCHANGED <<chunks, bi, finishedMsg, ctlVars>>
       ELSE /\ exitMsg' = exitMsg
            /\ chunks' = chunked(to_send, batch_sz)
            /\ LoopHead(chunked(to_send, batch_sz), 1, 0)

\* neocities.NeoCities(...) and the call of retry_on_rate_limit(nc.listitems).
Connect ==
    \E ok \in BOOLEAN :
        IF ok
        THEN /\ pc' = "list"
             /\ Enter("list")
             /\ exitMsg' = exitMsg
        ELSE /\ pc' = "exit_client"
             /\ exitMsg' = "client"
             /\ UNCHANGED ctlVars

ConfigMissingIgnored(exists) == FALSE
\* not cfg_path.exists()
ConfigMissing(exists) == ~exists

\* main up to the first prompt: the template config when config.ini is missing.
Start ==
    /\ pc = "start"
    /\ \E s \in BOOLEAN :
        /\ skip_input' = s
        /\ IF ConfigMissing(cfg_exists)
           THEN /\ cfg_exists' = TRUE
                /\ cfg_batch' = DefaultBatch
                /\ pc' = "exit_template"
                /\ UNCHANGED <<batch_sz, exitMsg, ctlVars>>
           ELSE /\ UNCHANGED <<cfg_exists, cfg_batch>>
                /\ IF ~Interactive(s)
                   THEN /\ batch_sz' = cfg_batch
                        /\ Connect
                   ELSE /\ pc' = "creds_id"
                        /\ UNCHANGED <<batch_sz, exitMsg, ctlVars>>
    /\ UNCHANGED <<remote, transientCap, run, planVars, loopVars, prompts, prev,
                   fnResult, ret, attempted>>

\* The operator answers "Neocities ID".
CredId ==
    /\ pc = "creds_id"
    /\ prompts' = prompts + 1
    /\ pc' = "creds_pw"
    /\ UNCHANGED <<envVars, planVars, loopVars, invVars, run, skip_input, batch_sz,
                   exitMsg, prev>>

\* The operator answers "Password / API key"; config is read and saved back.
CredPw ==
    /\ pc = "creds_pw"
    /\ prompts' = prompts + 1
    /\ batch_sz' = cfg_batch
    /\ Connect
    /\ UNCHANGED <<envVars, planVars, loopVars, run, skip_input, prev,
                   fnResult, ret, attempted>>

\* nc.listitems returns: the listing is validated, the index built, the tree
\* scanned.
ListOk ==
    /\ pc = "list" /\ ist = "Attempting"
    /\ \E r \in ListResults(remote) :
        /\ Succeed(r)
        /\ raw' = ReturnValue(r)
        /\ IF ListingBad(ReturnValue(r))
           THEN /\ pc' = "exit_api"
                /\ exitMsg' = ApiMessage(ReturnValue(r))
                /\ UNCHANGED <<remote_index, li>>
           ELSE /\ pc' = "diff"
                /\ remote_index' = BuildIndex(ReturnValue(r).files)
                /\ li' = 1
                /\ exitMsg' = exitMsg
    /\ ist' = "Succeeded"
    /\ UNCHANGED <<delay, sleeps, status, callOp, prevSleeps, attempted>>
    /\ UNCHANGED <<envVars, loopVars, run, skip_input, batch_sz, to_send, hashed,
                   ioFailed, prompts, prev>>

\* One iteration of `for p in local`; sha1_file runs only when the sizes are
\* equal (the `or` short-circuits) and may fail with an OSError.
HashFailureSkips ==
    /\ li' = li + 1
    /\ UNCHANGED <<to_send, pc, exitMsg>>
\* sha1_file raises OSError: nothing catches it, the run is over.
HashFailure ==
    /\ pc' = "raised"
    /\ exitMsg' = "OSError"
    /\ UNCHANGED <<to_send, li>>

DiffStep ==
    /\ pc = "diff" /\ li <= Len(local)
    /\ LET rel == local[li]
           size == st_size(rel)
           r == IndexGet(remote_index, rel)
       IN  IF SizeDiffers(size, r[1])
           THEN /\ to_send' = IF NeedsUpload(size, sha1_file(rel), r[1], r[2])
                              THEN Append(to_send, rel) ELSE to_send
                /\ li' = li + 1
                /\ UNCHANGED <<hashed, ioFailed, pc, exitMsg>>
           ELSE /\ hashed' = hashed \cup {rel}
                /\ \E readable \in BOOLEAN :
                    IF readable
                    THEN /\ to_send' = IF NeedsUpload(size, sha1_file(rel), r[1], r[2])
                                       THEN Append(to_send, rel) ELSE to_send
                         /\ li' = li + 1
                         /\ UNCHANGED <<ioFailed, pc, exitMsg>>
                    ELSE /\ ioFailed' = ioFailed \cup {rel}
                         /\ HashFailure
    /\ UNCHANGED <<envVars, loopVars, invVars, run, skip_input, batch_sz, raw,
                   remote_index, prompts, prev>>

\* After the loop: total is printed; the run asks, leaves or uploads.
DiffDone ==
    /\ pc = "diff" /\ li > Len(local)
    /\ IF ~Interactive(skip_input)
       THEN LoopStart
       ELSE /\ pc' = IF Len(to_send) = 0 THEN "exit_prompt" ELSE "confirm"
            /\ UNCHANGED <<sent, chunks, bi, finishedMsg, exitMsg, ctlVars>>
    /\ UNCHANGED <<envVars, planVars, run, skip_input, batch_sz, prompts, answer, reports,
                   uploaded, prev, fnResult, ret, attempted>>

\* The operator answers "Continue? [y/N]".
Confirm ==
    /\ pc = "confirm"
    /\ prompts' = prompts + 1
    /\ \E ans \in Answers :
        /\ answer' = ans
        /\ IF Declines(ans)
           THEN /\ pc' = "exit_prompt"
                /\ UNCHANGED <<sent, chunks, bi, finishedMsg, exitMsg, ctlVars>>
           ELSE LoopStart
    /\ UNCHANGED <<envVars, planVars, run, skip_input, batch_sz, reports, uploaded,
                   prev, fnResult, ret, attempted>>

\* The operator answers "Press ENTER to exit." of the early return.
ExitPrompt ==
    /\ pc = "exit_prompt"
    /\ prompts' = prompts + 1
    /\ pc' = "returned"
    /\ UNCHANGED <<envVars, planVars, loopVars, invVars, run, skip_input, batch_sz,
                   exitMsg, prev>>

\* nc.upload(*chunk) returns: the site holds the chunk, progress is reported,
\* sent grows, and the loop goes on.
UploadOk ==
    /\ pc = "upload" /\ ist = "Attempting"
    /\ Succeed(UploadResult)
    /\ remote' = AfterUpload(remote, CurrentChunk)
    /\ attempted' = CurrentChunk
    /\ uploaded' = Append(uploaded, CurrentChunk)
    /\ reports' = reports + 1
    /\ sent' = sent + Len(CurrentChunk)
    /\ UNCHANGED <<chunks, answer>>
    /\ LoopHead(chunks, bi + 1, sent + Len(CurrentChunk))
    /\ UNCHANGED <<cfg_exists, cfg_batch, transientCap, planVars, run, skip_input,
                   batch_sz, prompts, exitMsg, prev>>

\* The operator answers the final "Press ENTER to exit.".
FinalAck ==
    /\ pc = "ack"
    /\ prompts' = prompts + 1
    /\ pc' = "done"
    /\ UNCHANGED <<envVars, planVars, loopVars, invVars, run, skip_input, batch_sz,
                   exitMsg, prev>>

\* The program is run again on the same tree, config and site.
Restart ==
    /\ pc \in Terminal
    /\ run < MaxRuns
    /\ run' = run + 1
    /\ prev' = IF finishedMsg.printed \/ (pc = "raised" /\ callOp = "upload")
                THEN [finished |-> finishedMsg.printed,
                      interrupted |-> (pc = "raised" /\ callOp = "upload"),
                      to_send |-> to_send, uploaded |-> uploaded]
                ELSE NoPrev
    /\ pc' = "start"
    /\ skip_input' = FALSE
    /\ batch_sz' = 0
    /\ raw' = NoResult
    /\ remote_index' = EmptyIndex
    /\ li' = 0
    /\ to_send' = <<>>
    /\ hashed' = {}
    /\ ioFailed' = {}
    /\ prompts' = 0
    /\ answer' = "unasked"
    /\ chunks' = <<>>
    /\ bi' = 0
    /\ sent' = 0
    /\ reports' = 0
    /\ uploaded' = <<>>
    /\ exitMsg' = "none"
    /\ finishedMsg' = [printed |-> FALSE, sent |-> 0, requests |-> 0]
    /\ ist' = "Idle"
    /\ delay' = 0
    /\ sleeps' = <<>>
    /\ status' = 0
    /\ fnResult' = NoResult
    /\ ret' = NoResult
    /\ callOp' = "none"
    /\ attempted' = <<>>
    /\ prevSleeps' = <<>>
    /\ UNCHANGED envVars

\* retry_on_rate_limit alone: fn returns.
InvokeOk ==
    /\ pc = "invoker" /\ ist = "Attempting"
    /\ \E r \in (IF callOp = "list" THEN ListResults(remote) ELSE {UploadResult}) :
        Succeed(r)
    /\ ist' = "Succeeded"
    /\ UNCHANGED <<delay, sleeps, status, callOp, prevSleeps, attempted>>
    /\ UNCHANGED <<envVars, planVars, loopVars, run, pc, skip_input, batch_sz, prompts,
                   exitMsg, prev>>

\* retry_on_rate_limit alone: the caller makes its next call.
CallAgain ==
    /\ pc = "invoker" /\ ist \in {"Succeeded", "Failed"}
    /\ \E op \in {"list", "upload"} : Enter(op)
    /\ exitMsg' = "none"
    /\ UNCHANGED <<envVars, planVars, loopVars, run, pc, skip_input, batch_sz, prompts,
                   prev, fnResult, ret, attempted>>

\* chunked alone: the generator is run to its end.
ApplyChunked ==
    /\ pc = "chunked_call"
    /\ IF RangeRaises(batch_sz)
       THEN /\ pc' = "raised"
            /\ exitMsg' = "ValueError"
            /\ chunks' = chunks
       ELSE /\ pc' = "chunked_done"
            /\ exitMsg' = exitMsg
            /\ chunks' = chunked(to_send, batch_sz)
    /\ UNCHANGED <<envVars, planVars, invVars, run, skip_input, batch_sz, prompts,
                   answer, bi, sent, reports, uploaded, finishedMsg, prev>>

Next ==
    \/ Start
    \/ CredId
    \/ CredPw
    \/ ListOk
    \/ AttemptTransient
    \/ BackoffElapsed
    \/ AttemptFatalHttp
    \/ AttemptRaisesOther
    \/ DiffStep
    \/ DiffDone
    \/ Confirm
    \/ ExitPrompt
    \/ UploadOk
    \/ FinalAck
    \/ Restart

Spec == Init /\ [][Next]_vars

(* ------------------------------------------- retry_on_rate_limit on its own *)
FixedEnv ==
    /\ cfg_exists = TRUE
    /\ cfg_batch = 1
    /\ remote = [p \in Paths |-> AbsentEntry]
    /\ run = 1
    /\ prev = NoPrev

InitInvoker ==
    /\ FixedEnv
    /\ transientCap = MaxRetry
    /\ RunData
    /\ pc = "invoker"
    /\ batch_sz = 1
    /\ to_send = <<>>
    /\ ist = "Attempting"
    /\ delay = InitialDelay
    /\ callOp \in {"list", "upload"}

NextInvoker ==
    \/ InvokeOk
    \/ AttemptTransient
    \/ BackoffElapsed
    \/ AttemptFatalHttp
    \/ AttemptRaisesOther
    \/ CallAgain

SpecInvoker == InitInvoker /\ [][NextInvoker]_vars

\* The sleeps end and the service answers every attempt.
LiveInvoker == SpecInvoker /\ WF_vars(NextInvoker)

(* ------------------------------------------------------- chunked on its own *)
RECURSIVE SeqsUpTo(_, _)
SeqsUpTo(S, n) ==
    IF n = 0 THEN {<<>>}
    ELSE LET shorter == SeqsUpTo(S, n - 1)
         IN  shorter \cup {Append(q, x) : q \in shorter, x \in S}

InitChunk ==
    /\ FixedEnv
    /\ transientCap = 0
    /\ RunData
    /\ pc = "chunked_call"
    /\ to_send \in SeqsUpTo({"a.html", "b.css"}, MaxLen)
    /\ batch_sz \in (-1)..MaxChunk
    /\ ist = "Idle"
    /\ delay = 0
    /\ callOp = "none"

SpecChunk == InitChunk /\ [][ApplyChunked]_vars

(* ================================================================ claims *)
RECURSIVE Pow2(_)
Pow2(n) == IF n <= 0 THEN 1 ELSE 2 * Pow2(n - 1)
\* The k-th sleep of the documented schedule 60, 120, 240, 480, 600, 600, ...
ScheduledSleep(k) == Min(60 * Pow2(k - 1), 600)
RetryList == {429, 500, 502, 503, 504}
Elems(q) == {q[i] : i \in 1..Len(q)}
RECURSIVE Flatten(_)
Flatten(qs) == IF qs = <<>> THEN <<>> ELSE Head(qs) \o Flatten(Tail(qs))
\* The diff loop has run over every local file.
PlanComplete == li > Len(local)
\* The listing main received holds a non-directory item for p with these values.
Listed(p) == \E k \in 1..Len(raw.files) : raw.files[k].path = p /\ ~raw.files[k].is_directory
ListedSame(p) ==
    \E k \in 1..Len(raw.files) :
        /\ raw.files[k].path = p /\ ~raw.files[k].is_directory
        /\ raw.files[k].size = st_size(p) /\ raw.files[k].sha1_hash = sha1_file(p)
ListedSameSizeOtherHash(p) ==
    \E k \in 1..Len(raw.files) :
        /\ raw.files[k].path = p /\ ~raw.files[k].is_directory
        /\ raw.files[k].size = st_size(p) /\ raw.files[k].sha1_hash /= sha1_file(p)

\* C1: every local file the diff has decided is in to_send iff the listing has
\* no non-directory item for its path, or that item's size or hash differs
\* from the local one.
C1_PlanIffDiffers ==
    \A i \in 1..Len(local) :
        i < li => ((local[i] \in Elems(to_send)) <=> ~ListedSame(local[i]))
\* A complete plan with a file kept out (same size and hash), a file taken for
\* its hash alone, and a file taken because only a directory has its path.
C1_Witness ==
    /\ PlanComplete
    /\ \E p \in LocalPaths : ListedSame(p) /\ p \notin Elems(to_send)
    /\ \E p \in LocalPaths : ListedSameSizeOtherHash(p) /\ p \in Elems(to_send)
    /\ \E p \in LocalPaths : ~Listed(p) /\ remote[p].kind = "dir" /\ p \in Elems(to_send)

\* C2: within one call the k-th sleep lasts min(60 * 2^(k-1), 600), only a
\* status of the retry list is slept on, each failed attempt is followed by
\* exactly one sleep before the next attempt, and nothing is raised meanwhile.
C2_BackoffSequence ==
    /\ [](/\ \A k \in 1..Len(sleeps) : sleeps[k] = ScheduledSleep(k)
          /\ ist = "Backoff" => (status \in RetryList /\ Len(sleeps) >= 1)
          /\ ist \in {"Attempting", "Backoff"} => exitMsg = "none")
    /\ [][/\ (ist = "Attempting" /\ ist' = "Backoff") => Len(sleeps') = Len(sleeps) + 1
          /\ ist = "Attempting" => ist' /= "Attempting"
          /\ ist = "Backoff" => (ist' = "Attempting" /\ sleeps' = sleeps)]_vars
\* Six transient failures in a row: the cap of 600 has been slept twice.
C2_Witness == ist = "Backoff" /\ Len(sleeps) = 6 /\ sleeps[5] = 600 /\ sleeps[6] = 600

\* C3 as claimed: the first sleep of a later call of the run continues the
\* delay the previous call ended with, min(60 * 2^k, 600) after k failures.
C3_DelayCarriedOver ==
    (callOp = "upload" /\ Len(sleeps) >= 1) =>
        sleeps[1] = Min(60 * Pow2(Len(prevSleeps)), 600)
\* C3 as amended: every call starts its own schedule; the first sleep of each
\* call lasts 60 whatever the earlier calls of the run slept.
C3_DelayResetPerCall ==
    /\ Len(sleeps) >= 1 => sleeps[1] = 60
    /\ (ist = "Attempting" /\ sleeps = <<>>) => delay = 60
\* An upload call sleeping for the first time after a call that slept too.
C3_Witness == callOp = "upload" /\ Len(prevSleeps) >= 1 /\ Len(sleeps) = 1 /\ ist = "Backoff"

C5_Batching ==
    (pc = "chunked_done" /\ batch_sz > 0) =>
        /\ Len(chunks) = (Len(to_send) + batch_sz - 1) \div batch_sz
        /\ \A k \in 1..Len(chunks) :
            /\ k < Len(chunks) => Len(chunks[k]) = batch_sz
            /\ Len(chunks[k]) \in 1..batch_sz
        /\ Flatten(chunks) = to_send
\* Five items in chunks of two: sizes 2, 2, 1.
C5_Witness ==
    /\ pc = "chunked_done" /\ batch_sz = 2 /\ Len(to_send) = 5
    /\ Len(chunks) = 3 /\ Len(chunks[3]) = 1

\* C6 as claimed: with a batch size that is not positive nothing is uploaded
\* and the run does not report a successful finish.
C6_NonPositiveBatchFails ==
    (batch_sz <= 0) => (~finishedMsg.printed /\ uploaded = <<>>)

\* C7 as claimed: after a run that printed "Finished" (all its batches
\* uploaded), the next run's plan is empty and it uploads nothing.
C7_SecondRunPlanEmpty ==
    (prev.finished /\ PlanComplete) => (to_send = <<>> /\ uploaded = <<>>)

\* C8: a call ends only by returning what fn returned or by raising a failure
\* that is not transient; a sleep is always followed by another attempt, and a
\* call whose transient failures stop does end.
C8_CallEnds ==
    /\ [](/\ ist = "Succeeded" => ret = fnResult
          /\ ist = "Failed" => (exitMsg = "OtherError" \/
                                (exitMsg = "HTTPError" /\ status \notin RetryList))
          /\ ist = "Backoff" => ENABLED BackoffElapsed)
    /\ [][ist = "Backoff" => ist' \in {"Backoff", "Attempting"}]_vars
    /\ (ist \in {"Attempting", "Backoff"}) ~> (ist \in {"Succeeded", "Failed"})
\* A listing returned after six transient failures.
C8_Witness ==
    /\ ist = "Succeeded" /\ callOp = "list" /\ Len(sleeps) = 6
    /\ ret.result = "success" /\ ret.has_files

\* C9: the run after one that a failure of the upload of chunk k ended plans
\* exactly the files of the old chunks k..last, none of chunks 1..k-1.
C9_RestartPlansTheRest ==
    (prev.interrupted /\ PlanComplete) =>
        LET done == Len(prev.uploaded) * cfg_batch
            rest == SubSeq(prev.to_send, done + 1, Len(prev.to_send))
        IN  /\ Elems(to_send) = Elems(rest)
            /\ Len(to_send) = Len(rest)
            /\ Elems(to_send) \cap Elems(Flatten(prev.uploaded)) = {}
\* The old run uploaded a first chunk and failed on the second.
C9_Witness ==
    /\ prev.interrupted /\ PlanComplete
    /\ Len(prev.uploaded) >= 1 /\ Len(to_send) >= 1
    /\ Len(to_send) < Len(prev.to_send)

\* C10: a listing without result "success" or without "files" ends the run
\* with the API error (the service's message, else the response itself), the
\* listing call having returned once, before any hash and any upload.
C10_BadListingExits ==
    /\ (raw /= NoResult /\ (raw.result /= "success" \/ ~raw.has_files)) =>
            /\ pc = "exit_api"
            /\ exitMsg = (IF raw.message /= NoneSha THEN raw.message ELSE "raw")
    /\ pc = "exit_api" =>
            /\ raw.result /= "success" \/ ~raw.has_files
            /\ ist = "Succeeded" /\ callOp = "list"
            /\ hashed = {} /\ li = 0 /\ to_send = <<>>
            /\ uploaded = <<>> /\ attempted = <<>> /\ bi = 0
\* A "success" response without files, after a retried listing.
C10_Witness ==
    /\ pc = "exit_api" /\ raw.result = "success" /\ ~raw.has_files
    /\ Len(sleeps) >= 1

\* An upload request has been handed to the transport in this run.
UploadSubmitted == callOp = "upload" \/ attempted /= <<>> \/ uploaded /= <<>>
\* main stands at a point where it waits for the operator.
AtPrompt == pc \in {"creds_id", "creds_pw", "confirm", "exit_prompt", "ack"}

\* C11: in interactive mode an upload request is submitted only with a plan
\* that is not empty and after the operator answered y; with an empty plan or
\* another answer the run returns without an error and without any upload.
C11_InteractiveNeedsYes ==
    /\ [](~skip_input =>
            /\ UploadSubmitted => (Len(to_send) > 0 /\ answer \in {"y", "Y"})
            /\ (PlanComplete /\ pc /= "diff" /\ (Len(to_send) = 0 \/ answer \in {"n", ""})) =>
                    /\ pc \in {"exit_prompt", "returned"}
                    /\ ~UploadSubmitted /\ exitMsg = "none" /\ ~finishedMsg.printed
            /\ answer /= "unasked" => Len(to_send) > 0)
    /\ [][(~skip_input /\ pc = "exit_prompt") => pc' \in {"exit_prompt", "returned"}]_vars
\* The operator pressed ENTER at the confirmation and the run has returned.
C11_Witness ==
    /\ ~skip_input /\ pc = "returned" /\ answer = "" /\ Len(to_send) = 3
    /\ prompts = 4 /\ ~UploadSubmitted

\* C12: with skip_input no input is ever read and main never stands at a
\* prompt; after the diff it goes on without confirmation and every chunk the
\* batcher yields is submitted, in order.
C12_NonInteractiveNoPrompt ==
    /\ []((skip_input /\ pc /= "start") =>
            /\ prompts = 0 /\ answer = "unasked" /\ ~AtPrompt
            /\ pc = "upload" => Len(uploaded) = bi - 1
            /\ finishedMsg.printed => uploaded = chunks)
    /\ [][(skip_input /\ pc = "diff" /\ PlanComplete /\ chunked(to_send, batch_sz) /= <<>>) =>
            (pc' = "upload" /\ bi' = 1 /\ chunks' = chunked(to_send, batch_sz))]_vars
\* A run without input that uploaded two chunks and is done.
C12_Witness ==
    /\ skip_input /\ pc = "done" /\ Len(uploaded) = 2 /\ Len(to_send) = 3
    /\ prompts = 0

\* C13: without config.ini main writes the template (batch_size 100) and
\* exits at once: no prompt, no listing call, no upload, no error message.
C13_MissingConfigTemplate ==
    /\ [](pc = "exit_template" =>
            /\ cfg_exists /\ cfg_batch = DefaultBatch
            /\ prompts = 0 /\ ist = "Idle" /\ callOp = "none" /\ raw = NoResult
            /\ ~UploadSubmitted /\ exitMsg = "none" /\ hashed = {})
    /\ [][(pc = "start" /\ ~cfg_exists) => (pc' = "exit_template" /\ remote' = remote)]_vars
    /\ [][pc = "exit_template" => pc' \in {"exit_template", "start"}]_vars
\* The first run has just written the template.
C13_Witness == pc = "exit_template" /\ run = 1 /\ cfg_exists /\ cfg_batch = DefaultBatch

\* The listing main received holds a non-directory item for p of the local size.
ListedSameSize(p) ==
    \E k \in 1..Len(raw.files) :
        /\ raw.files[k].path = p /\ ~raw.files[k].is_directory
        /\ raw.files[k].size = st_size(p)

\* C14: an OSError of sha1_file ends the run where it is raised: the file is
\* neither passed over nor put into the plan, the loop goes no further, and no
\* upload is submitted; uploads start only after the whole diff.
C14_HashFailureEndsRun ==
    /\ [](/\ ioFailed /= {} =>
                /\ pc = "raised" /\ exitMsg = "OSError"
                /\ li <= Len(local) /\ ioFailed = {local[li]}
                /\ local[li] \notin Elems(to_send)
                /\ ~UploadSubmitted /\ ~finishedMsg.printed
          /\ UploadSubmitted => (PlanComplete /\ ioFailed = {}))
    /\ [][ioFailed /= {} => (ioFailed' = ioFailed /\ pc' = pc) \/ (pc' = "start" /\ run' = run + 1)]_vars
\* The hash of the second file failed after the first file was kept out.
C14_Witness ==
    /\ ioFailed = {"b.css"} /\ pc = "raised" /\ hashed = {"a.html", "b.css"}
    /\ to_send = <<>>

\* C15 as claimed: chunks are uploaded in plan order, one call each, chunk
\* i+1 only after chunk i succeeded, a retry resubmits the same chunk, and at
\* "Finished" every file of the plan is in exactly one successful request.
C15_EveryFileUploadedOnce ==
    /\ [](/\ pc = "upload" =>
                /\ bi \in 1..Len(chunks)
                /\ uploaded = SubSeq(chunks, 1, bi - 1)
                /\ Flatten(uploaded) = SubSeq(to_send, 1, Len(Flatten(uploaded)))
          /\ finishedMsg.printed => (uploaded = chunks /\ Flatten(uploaded) = to_send))
    /\ [][/\ (pc = "upload" /\ ist = "Attempting" /\ ist' \in {"Backoff", "Failed"}) =>
                (attempted' = chunks[bi] /\ bi' = bi /\ uploaded' = uploaded)
          /\ (pc = "upload" /\ ist = "Backoff") =>
                (bi' = bi /\ chunks' = chunks /\ uploaded' = uploaded /\ attempted' = attempted)
          /\ Len(uploaded') = Len(uploaded) + 1 =>
                /\ pc = "upload" /\ ist = "Attempting"
                /\ uploaded' = Append(uploaded, chunks[bi])
                /\ attempted' = chunks[bi]]_vars

\* C16 as claimed: the diff calls sha1_file on every local file it decides,
\* also when the sizes differ or the index has no entry.
C16_HashAlwaysComputed ==
    \A i \in 1..Len(local) : i < li => local[i] \in hashed
\* C16 as amended: sha1_file is called on a local file exactly when the index
\* has an entry of the same size; otherwise the file is taken unhashed.
C16_HashOnlyOnEqualSize ==
    /\ \A i \in 1..Len(local) :
        i < li => /\ (local[i] \in hashed) <=> ListedSameSize(local[i])
                  /\ ~ListedSameSize(local[i]) => local[i] \in Elems(to_send)
    /\ \A p \in hashed : ListedSameSize(p)
\* A complete diff that hashed one file and took two without hashing them.
C16_Witness ==
    /\ PlanComplete /\ Cardinality(hashed) = 1 /\ Len(to_send) >= 2
    /\ \E p \in LocalPaths : Listed(p) /\ ~ListedSameSize(p) /\ p \notin hashed
    /\ \E p \in LocalPaths : ~Listed(p) /\ p \notin hashed

\* C17 as claimed: progress is reported once per succeeded chunk and only
\* then; sent is the number of files of the succeeded chunks, never more than
\* the plan holds, and equals the length of the plan at "Finished".
C17_SentCountsThePlan ==
    /\ reports = Len(uploaded)
    /\ sent = Len(Flatten(uploaded))
    /\ sent <= Len(to_send)
    /\ finishedMsg.printed => (sent = Len(to_send) /\ finishedMsg.sent = Len(to_send))

\* C18: what is handed to nc.upload is always part of the plan; an object of
\* the site without local counterpart or outside the plan keeps its entry; the
\* index is the one built from the listing until the run ends.
C18_OnlyThePlanIsTouched ==
    /\ [](/\ Elems(attempted) \subseteq Elems(to_send)
          /\ Elems(Flatten(uploaded)) \subseteq Elems(to_send)
          /\ (raw.result = "success" /\ raw.has_files) =>
                \A p \in Paths :
                    /\ (p \in DOMAIN remote_index) <=> Listed(p)
                    /\ Listed(p) => \E k \in 1..Len(raw.files) :
                            /\ raw.files[k].path = p
                            /\ remote_index[p] = <<raw.files[k].size, raw.files[k].sha1_hash>>)
    /\ [][/\ remote'[RemoteOnly] = remote[RemoteOnly]
          /\ \A p \in Paths : remote'[p] /= remote[p] =>
                (pc = "upload" /\ p \in Elems(to_send) /\ p \in Elems(chunks[bi]))
          /\ pc \in {"diff", "confirm", "exit_prompt", "upload", "ack"} =>
                remote_index' = remote_index]_vars
\* A chunk went up while the site holds an object that no local file matches.
C18_Witness ==
    /\ remote[RemoteOnly].kind = "file" /\ Len(uploaded) >= 1
    /\ Len(to_send) = 2 /\ Cardinality(DOMAIN remote_index) >= 2

\* C19: for a batch size >= 1 the request count of the "Finished" message is
\* the number of upload requests that succeeded, 0 for an empty plan.
C19_RequestCount ==
    (finishedMsg.printed /\ batch_sz >= 1) =>
        /\ finishedMsg.requests = Len(uploaded)
        /\ Len(to_send) = 0 => finishedMsg.requests = 0
\* Both an empty plan reported with 0 requests and three files in chunks of
\* two reported with 2 requests are reached.
C19_WitnessEmpty ==
    /\ finishedMsg.printed /\ skip_input /\ batch_sz >= 1
    /\ Len(to_send) = 0 /\ finishedMsg.requests = 0
C19_WitnessChunks ==
    /\ finishedMsg.printed /\ batch_sz = 2 /\ Len(to_send) = 3
    /\ finishedMsg.requests = 2 /\ Len(uploaded) = 2
====
